---- MODULE Spec2Model ----
(***************************************************************************)
(* A model of example/static_vector.hpp: static_vector<T, N>.              *)
(*                                                                         *)
(* Every member function is an operator from "world" to "world"; a world   *)
(* holds the storage of the objects a call involves together with the      *)
(* outcome of the call so far:                                             *)
(*   st = "ok"      the call is still running / has returned normally      *)
(*   st = "assert"  an assert() of the source failed (the process aborts)  *)
(*   st = "ub"      the call wrote outside buf_ (undefined behaviour)      *)
(* Every storage slot is Raw (no object lives there), Moved (a live object *)
(* that has been moved from, whose value is unspecified) or holds a value  *)
(* of T.  ev collects what a call did to object lifetimes: "oob" (a write  *)
(* outside buf_), "reconstruct" (placement new on a slot that holds an     *)
(* object), "destroy_raw" and "assign_raw" (a destructor call on, or an    *)
(* assignment to, a slot that holds none).                                 *)
(***************************************************************************)
EXTENDS Integers, Sequences, FiniteSets

\* ------------------------------------------------------------------ bounds
\* The capacity N of static_vector<T, N>.
N == 3
\* The values of T are 0 .. MaxVal.
MaxVal == 1
\* The longest source range handed to insert and to the range constructor.
MaxIns == 2

\* ------------------------------------------------------- storage and values
IDs == {"a", "b"}
Raw == -2
Moved == -1
DefaultT == 0
Vals == 0 .. MaxVal
Slots == 0 .. (N - 1)

Min(x, y) == IF x < y THEN x ELSE y
Max(x, y) == IF x < y THEN y ELSE x

\* Sequences over Vals of length 0 .. n.
SeqsUpTo(n) == UNION {[1 .. k -> Vals] : k \in 0 .. n}
Ranges == SeqsUpTo(MaxIns)

\* A default-constructed object: size_ = 0 and no slot of buf_ holds an object.
static_vector == [buf |-> [i \in Slots |-> Raw], size_ |-> 0]

\* The elements in [begin(), end()) as a sequence.
Content(v) == [k \in 1 .. Min(v.size_, N) |-> v.buf[k - 1]]
begin(v) == 0
end(v) == v.size_
size(v) == end(v) - begin(v)
capacity(v) == N
max_size(v) == N

\* ------------------------------------------------------------ call arguments
\* An argument is a value (T const &) or an rvalue reference to a slot of a
\* container (std::move(*it)), which constructing or assigning from leaves Moved.
Val(x) == [ref |-> FALSE, id |-> "a", i |-> 0, v |-> x]
RRef(id, i) == [ref |-> TRUE, id |-> id, i |-> i, v |-> 0]
ArgValue(w, arg) == IF arg.ref THEN w.vec[arg.id].buf[arg.i] ELSE arg.v
ArgTaken(w, arg) == IF arg.ref THEN [w EXCEPT !.vec[arg.id].buf[arg.i] = Moved] ELSE w

\* The world a call starts in.
World(vecs, nd) ==
    [vec |-> vecs, ndebug |-> nd, st |-> "ok", ev |-> {}, hit |-> "a", ret |-> 0]

\* ---------------------------------------------------------------- primitives
\* assert(cond): aborts unless NDEBUG is defined.
assert(w, cond) ==
    IF w.st # "ok" \/ w.ndebug \/ cond THEN w ELSE [w EXCEPT !.st = "assert"]

\* new (buf_ + i) T(arg): outside buf_ it is undefined behaviour; on a slot
\* that already holds an object it starts a second lifetime there.
Construct(w, id, i, arg) ==
    IF w.st # "ok" THEN w
    ELSE IF i >= N THEN [w EXCEPT !.st = "ub", !.ev = @ \cup {"oob"}, !.hit = id]
    ELSE LET x == ArgValue(w, arg)
             w1 == ArgTaken(w, arg)
         IN [w1 EXCEPT !.vec[id].buf[i] = x,
                       !.ev = IF w.vec[id].buf[i] # Raw
                              THEN @ \cup {"reconstruct"} ELSE @]

\* it->~T()
Destroy(w, id, i) ==
    IF w.st # "ok" THEN w
    ELSE [w EXCEPT !.vec[id].buf[i] = Raw,
                   !.ev = IF w.vec[id].buf[i] = Raw
                          THEN @ \cup {"destroy_raw"} ELSE @]

\* buf_[i] = arg (copy or move assignment to the object in slot i).
\* The value is read before the source is marked, so x = std::move(x) keeps x.
AssignSlot(w, id, i, arg) ==
    IF w.st # "ok" THEN w
    ELSE IF i >= N THEN [w EXCEPT !.st = "ub", !.ev = @ \cup {"oob"}, !.hit = id]
    ELSE LET x == ArgValue(w, arg)
             w1 == ArgTaken(w, arg)
         IN [w1 EXCEPT !.vec[id].buf[i] = x,
                       !.ev = IF w.vec[id].buf[i] = Raw
                              THEN @ \cup {"assign_raw"} ELSE @]

SetSize(w, id, n) == IF w.st # "ok" THEN w ELSE [w EXCEPT !.vec[id].size_ = n]
Return(w, r) == IF w.st # "ok" THEN w ELSE [w EXCEPT !.ret = r]

\* ------------------------------------------------------- <memory>/<algorithm>
RECURSIVE uninitialized_fill(_, _, _, _, _)
uninitialized_fill(w, id, first, last, x) ==
    IF first >= last THEN w
    ELSE uninitialized_fill(Construct(w, id, first, Val(x)), id, first + 1, last, x)

uninitialized_fill_n(w, id, first, n, x) == uninitialized_fill(w, id, first, first + n, x)

\* std::move_backward(first, last, d_last) within one container.
RECURSIVE move_backward(_, _, _, _, _)
move_backward(w, id, first, last, d_last) ==
    IF first >= last THEN w
    ELSE move_backward(AssignSlot(w, id, d_last - 1, RRef(id, last - 1)),
                       id, first, last - 1, d_last - 1)

\* std::move that writes every element to the same destination (d_first is
\* never advanced).
RECURSIVE std_move_stuck(_, _, _, _, _)
std_move_stuck(w, id, first, last, d_first) ==
    IF first >= last THEN w
    ELSE std_move_stuck(AssignSlot(w, id, d_first, RRef(id, first)),
                        id, first + 1, last, d_first)

\* std::move(first, last, d_first) within one container; it returns
\* d_first + (last - first).
RECURSIVE std_move(_, _, _, _, _)
std_move(w, id, first, last, d_first) ==
    IF first >= last THEN w
    ELSE std_move(AssignSlot(w, id, d_first, RRef(id, first)),
                  id, first + 1, last, d_first + 1)

\* std::copy(first, last, position) from a source range r.
RECURSIVE std_copy(_, _, _, _)
std_copy(w, id, r, position) ==
    IF r = <<>> THEN w
    ELSE std_copy(AssignSlot(w, id, position, Val(Head(r))), id, Tail(r), position + 1)

RECURSIVE destroy_range(_, _, _, _)
destroy_range(w, id, it, end_) ==
    IF it >= end_ THEN w
    ELSE destroy_range(Destroy(w, id, it), id, it + 1, end_)

\* ------------------------------------------------------------- static_vector
\* emplace(pos, args...) and emplace_back(args...), which calls it with end().
RECURSIVE emplace(_, _, _, _)
emplace_back(w, id, arg) == emplace(w, id, end(w.vec[id]), arg)

\* emplace that moves only the last element up and leaves the ones between
\* position and it where they were.
emplace_no_shift(w, id, position, arg) ==
    LET insert_before_end == position < end(w.vec[id])
        last == end(w.vec[id])
        w1 == IF insert_before_end
              THEN emplace_back(w, id, RRef(id, last - 1))
              ELSE w
        w2 == Construct(w1, id, position, arg)
        w3 == IF insert_before_end THEN w2
              ELSE SetSize(w2, id, w2.vec[id].size_ + 1)
    IN Return(w3, position)

emplace(w, id, position, arg) ==
    LET insert_before_end == position < end(w.vec[id])
        last == end(w.vec[id])
        w1 == IF insert_before_end
              THEN move_backward(emplace_back(w, id, RRef(id, last - 1)),
                                 id, position, last - 1, last)
              ELSE w
        w2 == Construct(w1, id, position, arg)
        w3 == IF insert_before_end THEN w2
              ELSE SetSize(w2, id, w2.vec[id].size_ + 1)
    IN Return(w3, position)

\* erase that shifts and shrinks but never runs the destructors.
erase_no_destroy(w, id, first, last) ==
    LET end_ == end(w.vec[id])
        w1 == std_move(w, id, last, end_, first)
        w3 == SetSize(w1, id, w1.vec[id].size_ - (last - first))
    IN Return(w3, first)

\* erase(f, last)
erase(w, id, first, last) ==
    LET end_ == end(w.vec[id])
        it == first + (end_ - last)
        w1 == std_move(w, id, last, end_, first)
        w2 == destroy_range(w1, id, it, end_)
        w3 == SetSize(w2, id, w2.vec[id].size_ - (last - first))
    IN Return(w3, first)

\* resize(sz, x)
resize(w, id, sz, x) ==
    LET w0 == assert(w, sz < capacity(w.vec[id]))
        w1 == IF w0.st = "ok" /\ sz < size(w0.vec[id])
              THEN erase(w0, id, begin(w0.vec[id]) + sz, end(w0.vec[id]))
              ELSE w0
        w2 == IF w1.st = "ok" /\ size(w1.vec[id]) < sz
              THEN uninitialized_fill(w1, id, end(w1.vec[id]), begin(w1.vec[id]) + sz, x)
              ELSE w1
    IN SetSize(w2, id, sz)

\* insert(pos, first, last) with [first, last) the source range r.
insert(w, id, position, r) ==
    LET insertions == Len(r)
        w0 == assert(w, size(w.vec[id]) + insertions < capacity(w.vec[id]))
        w1 == uninitialized_fill_n(w0, id, end(w0.vec[id]), insertions, DefaultT)
        w2 == move_backward(w1, id, position, end(w1.vec[id]),
                            end(w1.vec[id]) + insertions)
        w3 == std_copy(w2, id, r, position)
        w4 == SetSize(w3, id, w3.vec[id].size_ + insertions)
    IN Return(w4, position)

\* clear(), from container_interface: erase(begin(), end()).
clear(w, id) == erase(w, id, begin(w.vec[id]), end(w.vec[id]))

\* assign(first, last), from container_interface: the old elements go and the
\* range is inserted.
assign(w, id, r) ==
    LET w1 == clear(w, id)
    IN insert(w1, id, begin(w1.vec[id]), r)

\* assign(n, x), from container_interface: n copies of x.
assign_n(w, id, n, x) == assign(w, id, [k \in 1 .. n |-> x])

\* resize(n), from container_interface: resize(n, T()).
resize_1(w, id, n) == resize(w, id, n, DefaultT)

\* for (it = first; it != last; ++it) dst.emplace_back(std::move(src[it]));
RECURSIVE emplace_back_each(_, _, _, _, _)
emplace_back_each(w, dst, src, it, last) ==
    IF it >= last THEN w
    ELSE emplace_back_each(emplace_back(w, dst, RRef(src, it)), dst, src, it + 1, last)

\* The member initializer size_(0) of every constructor, on fresh storage.
ctor_init(w, id) == [w EXCEPT !.vec[id] = static_vector]

\* static_vector()
ctor_default(w, id) == ctor_init(w, id)
\* static_vector(n)
ctor_n(w, id, n) == assign_n(ctor_init(w, id), id, n, DefaultT)
\* static_vector(n, x)
ctor_n_x(w, id, n, x) == assign_n(ctor_init(w, id), id, n, x)
\* static_vector(first, last)
ctor_range(w, id, r) == assign(ctor_init(w, id), id, r)
\* static_vector(std::initializer_list<T>)
ctor_il(w, id, il) == ctor_range(w, id, il)
\* static_vector(static_vector const & other)
ctor_copy(w, id, other) == assign(ctor_init(w, id), id, Content(w.vec[other]))
\* static_vector(static_vector && other)
ctor_move(w, id, other) ==
    LET w0 == ctor_init(w, id)
        w1 == emplace_back_each(w0, id, other, begin(w0.vec[other]), end(w0.vec[other]))
    IN clear(w1, other)

\* operator=(static_vector const & other)
assign_copy(w, id, other) ==
    LET w1 == clear(w, id)
    IN assign(w1, id, Content(w1.vec[other]))

\* Move assignment that forgets to clear the target first.
assign_move_keeps_old(w, id, other) ==
    LET w2 == emplace_back_each(w, id, other, begin(w.vec[other]), end(w.vec[other]))
    IN clear(w2, other)

\* operator=(static_vector && other)
assign_move(w, id, other) ==
    LET w1 == clear(w, id)
        w2 == emplace_back_each(w1, id, other, begin(w1.vec[other]), end(w1.vec[other]))
    IN clear(w2, other)

\* std::swap((*this)[i], other[i]): T tmp(std::move(x)); x = std::move(y);
\* y = std::move(tmp);
std_swap(w, id, other, i) ==
    LET tmp == w.vec[id].buf[i]
        w1 == ArgTaken(w, RRef(id, i))
        w2 == AssignSlot(w1, id, i, RRef(other, i))
    IN AssignSlot(w2, other, i, Val(tmp))

RECURSIVE swap_prefix(_, _, _, _, _)
swap_prefix(w, id, other, i, short_size) ==
    IF i >= short_size THEN w
    ELSE swap_prefix(std_swap(w, id, other, i), id, other, i + 1, short_size)

\* swap(other)
swap(w, id, other) ==
    LET short_size == Min(size(w.vec[id]), size(w.vec[other]))
        long_size == Max(size(w.vec[id]), size(w.vec[other]))
        w1 == swap_prefix(w, id, other, 0, short_size)
        longer == IF size(w.vec[id]) < size(w.vec[other]) THEN other ELSE id
        shorter == IF size(w.vec[id]) < size(w.vec[other]) THEN id ELSE other
        w2 == emplace_back_each(w1, shorter, longer,
                                begin(w1.vec[longer]) + short_size, end(w1.vec[longer]))
        w3 == resize_1(w2, longer, short_size)
    IN SetSize(w3, shorter, long_size)

\* std::mismatch(l.begin(), l.end(), r.begin(), r.end()): the first index at
\* which either range ends or the elements differ.
RECURSIVE mismatch(_, _, _)
mismatch(l, r, i) ==
    IF i = size(l) \/ i = size(r) \/ l.buf[i] # r.buf[i] THEN i
    ELSE mismatch(l, r, i + 1)

\* std::equal(l.begin(), l.end(), r.begin(), r.end())
equal(l, r) == size(l) = size(r) /\ mismatch(l, r, 0) = size(l)

\* operator==(lhs, rhs)
operator_eq(lhs, rhs) == size(lhs) = size(rhs) /\ equal(lhs, rhs)

\* operator< with its two end tests in the wrong order.
operator_lt_swapped(lhs, rhs) ==
    LET iters == mismatch(lhs, rhs, 0)
    IN IF iters = end(lhs) THEN TRUE
       ELSE IF iters = end(rhs) THEN FALSE
       ELSE lhs.buf[iters] < rhs.buf[iters]

\* operator<(lhs, rhs)
operator_lt(lhs, rhs) ==
    LET iters == mismatch(lhs, rhs, 0)
    IN IF iters = end(rhs) THEN FALSE
       ELSE IF iters = end(lhs) THEN TRUE
       ELSE lhs.buf[iters] < rhs.buf[iters]

\* -------------------------------------------------------- reverse_iterator
\* An iterator into a static_vector is a T * (Pointer, an index into buf_) or a
\* reverse_iterator<BidiIter> whose member it_ is an iterator again.
Pointer(i) == [kind |-> "ptr", p |-> i]

\* reverse_iterator(BidiIter it) : it_(it)
reverse_iterator(it) == [kind |-> "rev", it_ |-> it]

\* make_reverse_iterator(it)
make_reverse_iterator(it) == reverse_iterator(it)

\* base_reference(): the wrapped position it_
base_reference(r) == r.it_

RECURSIVE std_advance(_, _)

\* operator+= that advances a copy of it_ and leaves the member alone.
operator_plus_eq_copy(r, n) == r

\* operator+= that advances it_ in the wrapped iterator's own direction.
operator_plus_eq_forward(r, n) == reverse_iterator(std_advance(r.it_, n))

\* operator+=(n): std::advance(it_, -n); return *this
operator_plus_eq(r, n) == reverse_iterator(std_advance(r.it_, -n))

\* std::advance(it, n) on a random-access iterator is it += n: pointer
\* arithmetic on a T *, operator+= on a reverse_iterator.
std_advance(it, n) ==
    IF it.kind = "ptr" THEN Pointer(it.p + n) ELSE operator_plus_eq(it, n)

\* std::prev(it)
std_prev(it) == std_advance(it, -1)

RECURSIVE deref(_, _)

\* operator* that reads the element at it_ itself.
operator_star_at(v, r) == deref(v, r.it_)

\* operator*(): *std::prev(it_)
operator_star(v, r) == deref(v, std_prev(r.it_))

\* *it.  The callers below only dereference positions of live elements; a
\* position outside buf_ is storage that holds no object.
deref(v, it) ==
    IF it.kind = "ptr"
    THEN IF it.p \in Slots THEN v.buf[it.p] ELSE Raw
    ELSE operator_star(v, it)

\* iterator_interface: ++r is r += 1
operator_inc(r) == operator_plus_eq(r, 1)

\* iterator_interface: equality of two adaptors is equality of the positions
\* they wrap, reached through base_reference().
RECURSIVE it_operator_eq(_, _)
it_operator_eq(lhs, rhs) ==
    IF lhs.kind = "ptr" THEN lhs.p = rhs.p
    ELSE it_operator_eq(base_reference(lhs), base_reference(rhs))

\* iterator_interface: reverse_iterator defines no distance of its own, so
\* lhs - rhs is the distance of the positions they wrap, reached through
\* base_reference().
RECURSIVE it_operator_minus(_, _)
it_operator_minus(lhs, rhs) ==
    IF lhs.kind = "ptr" THEN lhs.p - rhs.p
    ELSE it_operator_minus(base_reference(lhs), base_reference(rhs))

\* iterator_interface: lhs < rhs from the sign of the distance
it_operator_lt(lhs, rhs) == it_operator_minus(lhs, rhs) < 0

\* for (r = first; r != last; ++r) visit(*r), at most fuel steps
RECURSIVE traverse(_, _, _, _)
traverse(v, r, last, fuel) ==
    IF it_operator_eq(r, last) \/ fuel = 0 THEN <<>>
    ELSE <<operator_star(v, r)>> \o traverse(v, operator_inc(r), last, fuel - 1)

\* ------------------------------------------------------------------- state
\* The object under test is a.  The object b is the other operand of a
\* two-object call: the caller builds it with emplace_back right before the
\* call and it goes out of scope when the caller goes on (Discard).
VARIABLES
    vec,      \* the two objects: vec[id] = [buf, size_]
    ndebug,   \* whether the build defines NDEBUG
    status,   \* "ok", "assert" (aborted) or "ub"
    call      \* the call that returned last: arguments, snapshot, return value

vars == <<vec, ndebug, status, call>>

NoRange == <<>>
NoCall ==
    [op |-> "none", self |-> "a", other |-> "a", pos |-> 0, last |-> 0, n |-> 0,
     x |-> 0, r |-> NoRange, pre |-> [id \in IDs |-> static_vector],
     ret |-> 0, ev |-> {}, st |-> "ok", eq |-> FALSE, lt |-> FALSE,
     y |-> 0, d |-> 0]

Idle == status = "ok" /\ call.op = "none"

\* The state a call leaves behind; w0 is the world the call started in.  After
\* undefined behaviour the write one past buf_ may have landed on size_, so
\* size_ is any value.
Finish(w0, w, c) ==
    /\ status' = w.st
    /\ call' = [c EXCEPT !.pre = w0.vec, !.ret = w.ret, !.ev = w.ev, !.st = w.st]
    /\ IF w.st = "ub"
       THEN \E s \in 0 .. (N + 1) : vec' = [w.vec EXCEPT ![w.hit].size_ = s]
       ELSE vec' = w.vec
    /\ UNCHANGED ndebug

Init ==
    /\ vec = [id \in IDs |-> static_vector]
    /\ ndebug \in BOOLEAN
    /\ status = "ok"
    /\ call = NoCall

Start == World(vec, ndebug)

\* static_vector b; for (x : r) b.emplace_back(x);
RECURSIVE emplace_back_all(_, _, _)
emplace_back_all(w, id, r) ==
    IF r = <<>> THEN w
    ELSE emplace_back_all(emplace_back(w, id, Val(Head(r))), id, Tail(r))

WithOther(r) == emplace_back_all(ctor_default(Start, "b"), "b", r)
Others == SeqsUpTo(N)

Emplace ==
    /\ Idle
    /\ \E x \in Vals, pos \in begin(vec["a"]) .. end(vec["a"]) :
         Finish(Start, emplace(Start, "a", pos, Val(x)),
                [NoCall EXCEPT !.op = "emplace", !.pos = pos, !.x = x])

EmplaceBack ==
    /\ Idle
    /\ \E x \in Vals :
         Finish(Start, emplace_back(Start, "a", Val(x)),
                [NoCall EXCEPT !.op = "emplace_back", !.pos = end(vec["a"]), !.x = x])

Insert ==
    /\ Idle
    /\ \E r \in Ranges, pos \in begin(vec["a"]) .. end(vec["a"]) :
         Finish(Start, insert(Start, "a", pos, r),
                [NoCall EXCEPT !.op = "insert", !.pos = pos, !.r = r])

Erase ==
    /\ Idle
    /\ \E first \in begin(vec["a"]) .. end(vec["a"]) :
         \E last \in first .. end(vec["a"]) :
            Finish(Start, erase(Start, "a", first, last),
                   [NoCall EXCEPT !.op = "erase", !.pos = first, !.last = last])

Resize ==
    /\ Idle
    /\ \E sz \in 0 .. (N + 1), x \in Vals :
         Finish(Start, resize(Start, "a", sz, x),
                [NoCall EXCEPT !.op = "resize", !.n = sz, !.x = x])

\* p = a.insert(pos, first, last); a.erase(p, p + k);
InsertErase ==
    /\ Idle
    /\ \E r \in Ranges, pos \in begin(vec["a"]) .. end(vec["a"]) :
         LET w1 == insert(Start, "a", pos, r)
         IN Finish(Start, erase(w1, "a", w1.ret, w1.ret + Len(r)),
                   [NoCall EXCEPT !.op = "insert_erase", !.pos = pos, !.r = r])

\* The constructors build a new object in the place of a.
CtorDefault ==
    /\ Idle
    /\ Finish(Start, ctor_default(Start, "a"), [NoCall EXCEPT !.op = "ctor_default"])

CtorN ==
    /\ Idle
    /\ \E n \in 0 .. (N + 1) :
         Finish(Start, ctor_n(Start, "a", n),
                [NoCall EXCEPT !.op = "ctor_n", !.n = n, !.x = DefaultT])

CtorNX ==
    /\ Idle
    /\ \E n \in 0 .. (N + 1), x \in Vals :
         Finish(Start, ctor_n_x(Start, "a", n, x),
                [NoCall EXCEPT !.op = "ctor_n_x", !.n = n, !.x = x])

CtorRange ==
    /\ Idle
    /\ \E r \in Ranges :
         Finish(Start, ctor_range(Start, "a", r),
                [NoCall EXCEPT !.op = "ctor_range", !.r = r, !.n = Len(r)])

CtorIl ==
    /\ Idle
    /\ \E il \in Ranges :
         Finish(Start, ctor_il(Start, "a", il),
                [NoCall EXCEPT !.op = "ctor_il", !.r = il, !.n = Len(il)])

\* Two-object calls: a.f(b).
Swap ==
    /\ Idle
    /\ \E r \in Others :
         Finish(WithOther(r), swap(WithOther(r), "a", "b"),
                [NoCall EXCEPT !.op = "swap", !.self = "a", !.other = "b"])

\* a.swap(b); a.swap(b);
SwapSwap ==
    /\ Idle
    /\ \E r \in Others :
         Finish(WithOther(r), swap(swap(WithOther(r), "a", "b"), "a", "b"),
                [NoCall EXCEPT !.op = "swap_swap", !.self = "a", !.other = "b"])

\* a = b;
CopyAssign ==
    /\ Idle
    /\ \E r \in Others :
         Finish(WithOther(r), assign_copy(WithOther(r), "a", "b"),
                [NoCall EXCEPT !.op = "assign_copy", !.self = "a", !.other = "b"])

\* a = a;
CopyAssignSelf ==
    /\ Idle
    /\ Finish(Start, assign_copy(Start, "a", "a"),
              [NoCall EXCEPT !.op = "assign_copy", !.self = "a", !.other = "a"])

\* a = std::move(b);
MoveAssign ==
    /\ Idle
    /\ \E r \in Others :
         Finish(WithOther(r), assign_move(WithOther(r), "a", "b"),
                [NoCall EXCEPT !.op = "assign_move", !.self = "a", !.other = "b"])

\* a = std::move(a);
MoveAssignSelf ==
    /\ Idle
    /\ Finish(Start, assign_move(Start, "a", "a"),
              [NoCall EXCEPT !.op = "assign_move", !.self = "a", !.other = "a"])

\* static_vector a(b);
CtorCopy ==
    /\ Idle
    /\ \E r \in Others :
         Finish(WithOther(r), ctor_copy(WithOther(r), "a", "b"),
                [NoCall EXCEPT !.op = "ctor_copy", !.self = "a", !.other = "b"])

\* static_vector a(std::move(b));
CtorMove ==
    /\ Idle
    /\ \E r \in Others :
         Finish(WithOther(r), ctor_move(WithOther(r), "a", "b"),
                [NoCall EXCEPT !.op = "ctor_move", !.self = "a", !.other = "b"])

\* a == b and a < b
Compare ==
    /\ Idle
    /\ \E r \in Others :
         LET w == WithOther(r)
         IN Finish(w, w,
                   [NoCall EXCEPT !.op = "compare", !.self = "a", !.other = "b",
                                  !.eq = operator_eq(w.vec["a"], w.vec["b"]),
                                  !.lt = operator_lt(w.vec["a"], w.vec["b"])])

\* for (auto r = rbegin; r != rend; ++r) visit(*r), with
\* rbegin = make_reverse_iterator(a.end()), rend = make_reverse_iterator(a.begin())
ReverseTraverse ==
    /\ Idle
    /\ LET v == vec["a"]
           rbegin == make_reverse_iterator(Pointer(end(v)))
           rend == make_reverse_iterator(Pointer(begin(v)))
           seen == traverse(v, rbegin, rend, N + 1)
       IN Finish(Start, Start,
                 [NoCall EXCEPT !.op = "reverse_traverse", !.self = "a",
                                !.r = seen, !.n = Len(seen),
                                !.eq = it_operator_eq(rbegin, rend)])

\* auto r = make_reverse_iterator(a.begin() + p); x = *r; r += n; y = *r
ReverseStep ==
    /\ Idle
    /\ \E p \in 1 .. size(vec["a"]), n \in -N .. N :
         /\ p - n \in 1 .. size(vec["a"])
         /\ LET v == vec["a"]
                r0 == make_reverse_iterator(Pointer(p))
                r1 == operator_plus_eq(r0, n)
            IN Finish(Start, Return(Start, base_reference(r1).p),
                      [NoCall EXCEPT !.op = "reverse_step", !.self = "a",
                                     !.pos = p, !.n = n,
                                     !.x = operator_star(v, r0),
                                     !.y = operator_star(v, r1)])

\* auto rr = make_reverse_iterator(make_reverse_iterator(a.begin() + i));
\* x = *rr; rr += n; y = *rr
DoubleReverse ==
    /\ Idle
    /\ \E i \in 0 .. (size(vec["a"]) - 1), n \in -N .. N :
         /\ i + n \in 0 .. (size(vec["a"]) - 1)
         /\ LET v == vec["a"]
                rr == make_reverse_iterator(make_reverse_iterator(Pointer(i)))
            IN Finish(Start, Start,
                      [NoCall EXCEPT !.op = "double_reverse", !.self = "a",
                                     !.pos = i, !.n = n,
                                     !.x = operator_star(v, rr),
                                     !.y = operator_star(v, operator_plus_eq(rr, n))])

\* r1 = make_reverse_iterator(a.begin() + p1), r2 likewise from p2:
\* r1 < r2, r2 - r1, and whether r1 advanced by n is r2
ReverseCompare ==
    /\ Idle
    /\ \E p1 \in 0 .. size(vec["a"]), p2 \in 0 .. size(vec["a"]), n \in -N .. N :
         /\ p1 - n \in 0 .. size(vec["a"])
         /\ LET r1 == make_reverse_iterator(Pointer(p1))
                r2 == make_reverse_iterator(Pointer(p2))
            IN Finish(Start, Start,
                      [NoCall EXCEPT !.op = "reverse_compare", !.self = "a",
                                     !.pos = p1, !.last = p2, !.n = n,
                                     !.lt = it_operator_lt(r1, r2),
                                     !.d = it_operator_minus(r2, r1),
                                     !.eq = it_operator_eq(operator_plus_eq(r1, n), r2)])

\* The caller drops what the call returned, b goes out of scope, and the
\* caller goes on to its next call.
Discard ==
    /\ status = "ok"
    /\ call.op # "none"
    /\ call' = NoCall
    /\ vec' = [vec EXCEPT !["b"] = static_vector]
    /\ UNCHANGED <<ndebug, status>>

Next ==
    \/ Emplace
    \/ EmplaceBack
    \/ Insert
    \/ Erase
    \/ Resize
    \/ InsertErase
    \/ CtorDefault
    \/ CtorN
    \/ CtorNX
    \/ CtorRange
    \/ CtorIl
    \/ Swap
    \/ SwapSwap
    \/ CopyAssign
    \/ CopyAssignSelf
    \/ MoveAssign
    \/ MoveAssignSelf
    \/ CtorCopy
    \/ CtorMove
    \/ Compare
    \/ ReverseTraverse
    \/ ReverseStep
    \/ DoubleReverse
    \/ ReverseCompare
    \/ Discard

Spec == Init /\ [][Next]_vars

\* ------------------------------------------------------------------ claims
PreA == call.pre["a"]
PreB == call.pre["b"]
PostA == vec["a"]
PostB == vec["b"]
Returned == call.st = "ok"

\* Slots [0, size_) hold an object, slots [size_, N) hold none, size_ <= N.
StructInv(v) ==
    /\ v.size_ <= N
    /\ \A i \in Slots : (i < v.size_) <=> (v.buf[i] # Raw)

\* The last call's capacity preconditions: the element count it asks for fits.
CallPreconditionsHold ==
    /\ call.op \in {"emplace", "emplace_back"} => size(PreA) < N
    /\ call.op \in {"insert", "insert_erase"} => size(PreA) + Len(call.r) <= N
    /\ call.op \in {"resize", "ctor_n", "ctor_n_x", "ctor_range", "ctor_il"} => call.n <= N

\* C1: in every state reached by calls whose preconditions hold, both objects
\* have size_ <= N, an object in every slot below size_ and none at or above it.
C1_StructuralInvariant ==
    CallPreconditionsHold => \A id \in IDs : StructInv(vec[id])

\* C1 witness: an emplace strictly before end() has filled a up to N.
C1_Witness ==
    /\ call.op = "emplace" /\ Returned
    /\ call.pos < size(PreA)
    /\ size(PostA) = N

\* C2 (as claimed): emplace or emplace_back on a full container is stopped by an
\* assertion, never leaves size() > N and never constructs at an index >= N.
C2_FullEmplaceAsserted ==
    (call.op \in {"emplace", "emplace_back"} /\ size(PreA) = N)
        => /\ call.st = "assert"
           /\ size(PostA) <= N
           /\ "oob" \notin call.ev

\* C3 (as claimed): insert of k elements with s + k <= N completes, leaves
\* old[0,pos) ++ range ++ old[pos,s) with size s + k, and returns pos.
C3_InsertWithinCapacity ==
    (call.op = "insert" /\ size(PreA) + Len(call.r) <= N)
        => /\ Returned
           /\ Content(PostA) = SubSeq(Content(PreA), 1, call.pos) \o call.r
                               \o SubSeq(Content(PreA), call.pos + 1, size(PreA))
           /\ size(PostA) = size(PreA) + Len(call.r)
           /\ call.ret = call.pos

\* C4 (as claimed): resize(n, value) with 0 <= n <= N completes with size() = n,
\* the first min(old size, n) elements unchanged and value in [old size, n).
C4_ResizeWithinCapacity ==
    (call.op = "resize" /\ call.n <= N)
        => /\ Returned
           /\ size(PostA) = call.n
           /\ \A i \in Slots :
                /\ i < Min(size(PreA), call.n) => PostA.buf[i] = PreA.buf[i]
                /\ (size(PreA) <= i /\ i < call.n) => PostA.buf[i] = call.x

\* C5: erase(first, last) leaves old[0,first) ++ old[last,s), shrinks size() by
\* last - first, destroys exactly the last - first trailing slots and returns
\* first.
C5_Erase ==
    call.op = "erase"
        => /\ Returned
           /\ Content(PostA) = SubSeq(Content(PreA), 1, call.pos)
                               \o SubSeq(Content(PreA), call.last + 1, size(PreA))
           /\ size(PostA) = size(PreA) - (call.last - call.pos)
           /\ {i \in Slots : PreA.buf[i] # Raw /\ PostA.buf[i] = Raw}
                 = {i \in Slots : size(PreA) - (call.last - call.pos) <= i
                                  /\ i < size(PreA)}
           /\ "destroy_raw" \notin call.ev
           /\ call.ret = call.pos

\* C5 witness: an erase from the middle that a suffix survives.
C5_Witness ==
    /\ call.op = "erase" /\ Returned
    /\ 0 < call.pos /\ call.pos < call.last /\ call.last < size(PreA)
    /\ PreA.buf[call.last] # PreA.buf[call.pos]

\* C6 (as claimed): a.swap(b) completes for all sizes in 0..N and exchanges
\* content and size.
C6_Swap ==
    call.op = "swap"
        => /\ Returned
           /\ Content(PostA) = Content(PreB)
           /\ Content(PostB) = Content(PreA)

\* C7 (as claimed): a.swap(b); a.swap(b); restores both objects.
C7_SwapTwice ==
    call.op = "swap_swap"
        => /\ Returned
           /\ Content(PostA) = Content(PreA)
           /\ Content(PostB) = Content(PreB)

\* C8 (as claimed): p = v.insert(pos, first, last); v.erase(p, p + k); with
\* s + k <= N restores the content and size of v.
C8_InsertEraseInverse ==
    (call.op = "insert_erase" /\ size(PreA) + Len(call.r) <= N)
        => /\ Returned
           /\ Content(PostA) = Content(PreA)
           /\ size(PostA) = size(PreA)

\* The content a constructor call is expected to produce.
CtorExpected ==
    CASE call.op = "ctor_default" -> <<>>
      [] call.op = "ctor_n" -> [k \in 1 .. call.n |-> DefaultT]
      [] call.op = "ctor_n_x" -> [k \in 1 .. call.n |-> call.x]
      [] call.op \in {"ctor_range", "ctor_il"} -> call.r
      [] call.op = "ctor_copy" -> Content(PreB)
      [] OTHER -> <<>>
CtorOps == {"ctor_default", "ctor_n", "ctor_n_x", "ctor_range", "ctor_il", "ctor_copy"}

\* C9 (as claimed): every constructor call with an element count in 0..N yields
\* size() = the count with the expected content, and capacity() = N.
C9_Constructors ==
    (call.op \in CtorOps /\ Len(CtorExpected) <= N)
        => /\ Returned
           /\ size(PostA) = Len(CtorExpected)
           /\ Content(PostA) = CtorExpected
           /\ capacity(PostA) = N

\* l is lexicographically less than r: after a common prefix of length k, l
\* has ended and r has not, or l's next element is the smaller.
LexLess(l, r) ==
    \E k \in 0 .. Min(Len(l), Len(r)) :
        /\ \A j \in 1 .. k : l[j] = r[j]
        /\ \/ k = Len(l) /\ k < Len(r)
           \/ k < Len(l) /\ k < Len(r) /\ l[k + 1] < r[k + 1]

\* C10: lhs == rhs exactly when sizes and elements agree; lhs < rhs exactly
\* when lhs is lexicographically less than rhs.
C10_Relational ==
    call.op = "compare"
        => /\ call.eq <=> (Content(PreA) = Content(PreB))
           /\ call.lt <=> LexLess(Content(PreA), Content(PreB))

\* C10 witness: a proper prefix compared with its extension.
C10_Witness ==
    /\ call.op = "compare"
    /\ size(PreA) > 0 /\ size(PreA) < size(PreB)
    /\ \A i \in 0 .. (size(PreA) - 1) : PreA.buf[i] = PreB.buf[i]
    /\ call.lt /\ ~call.eq

\* C14: emplace(pos, x) on a container of size s < N leaves
\* old[0,pos) ++ [x] ++ old[pos,s), grows size() by one and returns pos.
C14_Emplace ==
    (call.op = "emplace" /\ size(PreA) < N)
        => /\ Returned
           /\ Content(PostA) = SubSeq(Content(PreA), 1, call.pos) \o <<call.x>>
                               \o SubSeq(Content(PreA), call.pos + 1, size(PreA))
           /\ size(PostA) = size(PreA) + 1
           /\ call.ret = call.pos
           /\ PostA.buf[call.ret] = call.x

\* C14 witness: an emplace strictly before end() that shifts two elements.
C14_Witness ==
    /\ call.op = "emplace" /\ Returned
    /\ call.pos + 2 <= size(PreA) /\ size(PreA) < N
    /\ PreA.buf[call.pos] # call.x

\* No slot of v holds an object.
NoElements(v) == v.size_ = 0 /\ \A i \in Slots : v.buf[i] = Raw

\* C16: move construction and move assignment from a distinct source leave the
\* target with the source's elements in order and the source with none; what
\* the target held before is gone.
C16_Move ==
    (call.op \in {"ctor_move", "assign_move"} /\ call.other = "b")
        => /\ Returned
           /\ Content(PostA) = Content(PreB)
           /\ size(PostA) = size(PreB)
           /\ \A i \in Slots : i >= size(PreB) => PostA.buf[i] = Raw
           /\ NoElements(PostB)

\* C16 witness: a move assignment onto a longer target with other elements.
C16_Witness ==
    /\ call.op = "assign_move" /\ call.other = "b" /\ Returned
    /\ size(PreB) > 0 /\ size(PreA) > size(PreB)
    /\ PreA.buf[0] # PreB.buf[0]

\* C17 (as claimed): a = b leaves a with b's content and size and b unchanged,
\* also when a and b are the same object.
C17_CopyAssign ==
    call.op = "assign_copy"
        => /\ Returned
           /\ Content(PostA) = Content(call.pre[call.other])
           /\ vec[call.other].size_ = call.pre[call.other].size_
           /\ Content(vec[call.other]) = Content(call.pre[call.other])

\* C18 (as claimed): within capacity, no call placement-constructs on a slot
\* that holds a live object and no call destroys a slot that holds none.
C18_LifetimesAlternate ==
    CallPreconditionsHold
        => "reconstruct" \notin call.ev /\ "destroy_raw" \notin call.ev

\* The elements of s, last first.
RECURSIVE Reverse(_)
Reverse(s) == IF s = <<>> THEN <<>> ELSE Reverse(Tail(s)) \o <<Head(s)>>

\* C11: stepping a reversing adaptor from reverse(S.end()) until it equals
\* reverse(S.begin()) visits exactly |S| positions and dereferences S's
\* elements in reverse order; for an empty S the two adaptors are equal and
\* nothing is visited.
C11_ReverseTraversal ==
    call.op = "reverse_traverse"
        => /\ call.n = size(PreA)
           /\ call.r = Reverse(Content(PreA))
           /\ (size(PreA) = 0 <=> call.eq)

C11_Witness ==
    /\ call.op = "reverse_traverse"
    /\ size(PreA) = N
    /\ PreA.buf[0] # PreA.buf[N - 1]
    /\ call.r # Content(PreA)

\* C12: an adaptor wrapping position p dereferences to the element at p - 1,
\* never to the one at p, and r += n moves the wrapped position to exactly
\* p - n, so that the next dereference gives the element at p - n - 1.
C12_DerefAndAdvance ==
    call.op = "reverse_step"
        => /\ call.x = PreA.buf[call.pos - 1]
           /\ call.ret = call.pos - call.n
           /\ call.y = PreA.buf[call.pos - call.n - 1]

C12_Witness ==
    /\ call.op = "reverse_step"
    /\ call.n > 0
    /\ call.pos < size(PreA)
    /\ PreA.buf[call.pos - 1] # PreA.buf[call.pos]
    /\ PreA.buf[call.pos - 1] # PreA.buf[call.pos - call.n - 1]

\* C13: reverse(reverse(it)) denotes the position it denotes: it dereferences
\* to the element at it, and stepped forward by n to the element at it + n.
C13_DoubleReversal ==
    call.op = "double_reverse"
        => /\ call.x = PreA.buf[call.pos]
           /\ call.y = PreA.buf[call.pos + call.n]

C13_Witness ==
    /\ call.op = "double_reverse"
    /\ call.pos > 0 /\ call.n # 0
    /\ PreA.buf[call.pos - 1] # PreA.buf[call.pos]
    /\ PreA.buf[call.pos] # PreA.buf[call.pos + call.n]

\* C15: relational and distance operations of two reversing adaptors follow
\* the reversed order: r1 < r2 exactly when r1 wraps a position after the one
\* r2 wraps, and r2 - r1 = n exactly when r1 advanced by n equals r2.
C15_ReversedOrder ==
    call.op = "reverse_compare"
        => /\ call.lt <=> call.pos > call.last
           /\ call.d = call.n <=> call.eq

====
